---- MODULE Spec2Model ----
(***************************************************************************)
(* Model of blenderscript.py: the ObjectTrackingReceiver addon.            *)
(*                                                                         *)
(* Two threads share the receiver object `tracker`:                        *)
(*   - Blender's main thread runs the operators (start/stop/clear/toggle)  *)
(*     and the callbacks registered with bpy.app.timers;                   *)
(*   - the listener thread created by start_server runs one                *)
(*     handle_websocket_message coroutine per client connection.           *)
(* The lambdas registered at lines 128-138 are closures over the           *)
(* coroutine's local variables: a callback reads label, visible, x, y, z   *)
(* and confidence when it RUNS, from the cells of the coroutine that       *)
(* registered it.  The two threads interleave between bytecodes, so the    *)
(* handler's assignments (lines 118-125) and a callback's argument loads   *)
(* are separate steps.                                                     *)
(*                                                                         *)
(* The clients' sockets are folded into the handler: handler_recv takes    *)
(* the next message a client sent.  Keyframes (lines 86-88) and materials  *)
(* are data of the host's animation and render systems and are left out.   *)
(*                                                                         *)
(* Units: confidence is in hundredths (100 = 1.0), scale in thousandths    *)
(* (1000 = 1.0); coordinates are integers.                                 *)
(***************************************************************************)
EXTENDS Integers, Sequences, FiniteSets, TLC

\* ---------------------------------------------------------------- bounds
MaxConns == 2
MaxMsgs == 2
MaxThreads == 2

Conns == 1..MaxConns

\* ------------------------------------------------------- input alphabets
Labels == {"person", "car"}

\* the payloads a client puts in 'coordinates' and 'confidence'
Payloads == { [x |-> 1, y |-> 2, z |-> 3, confidence |-> 100],
              [x |-> 4, y |-> 5, z |-> 6, confidence |-> 0] }

\* well-formed messages: {"label":..,"confidence":..,"coordinates":{..},"visible":..}
Messages == { [label |-> l, visible |-> v, x |-> p.x, y |-> p.y, z |-> p.z,
               confidence |-> p.confidence] :
              l \in Labels, v \in BOOLEAN, p \in Payloads }

\* a local variable of the coroutine that has not been assigned yet
Unbound == "unbound"

VARIABLES
    is_running,        \* tracker.is_running
    server_thread,     \* tracker.server_thread: 0 is None, else index in threads
    threads,           \* every thread start_server created: "starting", "serving", "dead"
    console,           \* last line printed by start_server / stop_server
    tracking_objects,  \* tracker.tracking_objects: label -> name of its sphere in bpy.data.objects
    visible_objects,   \* tracker.visible_objects: label -> bool
    objects,           \* bpy.data.objects: name -> object
    nobj,              \* number of objects ever created (identity of the next one)
    sock,              \* per connection: "free", or "open" once a client has connected
    received,          \* per connection: the messages the handler has parsed, in order
    parse_errors,      \* per connection: "Error parsing JSON" lines printed (line 141)
    hpc,               \* per connection: position of handle_websocket_message
    locals,            \* per connection: the coroutine's local variables (closure cells)
    nreg,              \* per connection: timers registered for the message being handled
    timers,            \* bpy.app.timers: registered callbacks, oldest first
    cur                \* the callback the main thread is running, with the arguments loaded so far

vars == << is_running, server_thread, threads, console, tracking_objects,
           visible_objects, objects, nobj, sock, received, parse_errors,
           hpc, locals, nreg, timers, cur >>

server_vars == << is_running, server_thread, threads >>
registry_vars == << tracking_objects, visible_objects, objects, nobj >>
conn_vars == << sock, received, parse_errors, hpc, locals, nreg >>

\* ------------------------------------------------------------- helpers
\* d[k] = v on a Python dict
Put(d, k, v) == [ key \in DOMAIN d \cup {k} |-> IF key = k THEN v ELSE d[key] ]

\* del / remove of a set of keys
Drop(d, ks) == [ key \in DOMAIN d \ ks |-> d[key] ]

EmptyDict == [ key \in {} |-> 0 ]

TrackedName(label) == << "Tracked", label >>
ParticleName(label) == << "Particle", label >>

\* the registry and the scene as one value, for the pure operators below
Registry == [ tracking_objects |-> tracking_objects,
              visible_objects |-> visible_objects,
              objects |-> objects,
              nobj |-> nobj ]

\* scale = 0.5 + (confidence * 0.5), in thousandths from hundredths
Scale(confidence) == 500 + confidence * 5

\* create_tracking_object: a hidden sphere at the origin and a hidden
\* particle cube at (10, 10, 10); returns the registry with both in the scene
create_tracking_object(R, label) ==
    LET sphere == [ id |-> R.nobj + 1,
                    location |-> << 0, 0, 0 >>,
                    scale |-> 1000,
                    hide_render |-> TRUE,
                    hide_viewport |-> TRUE ]
        cube == [ id |-> R.nobj + 2,
                  location |-> << 10, 10, 10 >>,
                  scale |-> 1000,
                  hide_render |-> TRUE,
                  hide_viewport |-> TRUE ]
    IN [ R EXCEPT !.objects = Put(Put(R.objects, TrackedName(label), sphere),
                                  ParticleName(label), cube),
                  !.nobj = R.nobj + 2 ]

\* update_object_position(label, x, y, z, confidence)
update_object_position(R, label, x, y, z, confidence) ==
    LET R1 == IF label \notin DOMAIN R.tracking_objects
              THEN LET C == create_tracking_object(R, label)
                   IN [ C EXCEPT !.tracking_objects =
                                     Put(R.tracking_objects, label, TrackedName(label)),
                                 !.visible_objects =
                                     Put(R.visible_objects, label, FALSE) ]
              ELSE R
        obj == R1.tracking_objects[label]
    IN [ R1 EXCEPT !.objects[obj].location = << x, y, z >>,
                   !.objects[obj].scale = Scale(confidence) ]

\* set_object_visibility(label, visible)
set_object_visibility(R, label, visible) ==
    IF label \in DOMAIN R.tracking_objects
    THEN LET obj == R.tracking_objects[label]
             O1 == [ R.objects EXCEPT ![obj].hide_viewport = ~visible,
                                      ![obj].hide_render = ~visible ]
             O2 == IF ParticleName(label) \in DOMAIN O1
                   THEN [ O1 EXCEPT ![ParticleName(label)].hide_viewport = ~visible,
                                    ![ParticleName(label)].hide_render = ~visible ]
                   ELSE O1
         IN [ R EXCEPT !.objects = O2,
                       !.visible_objects = Put(R.visible_objects, label, visible) ]
    ELSE R

\* clear_tracking_objects without lines 188-190: the particle cubes stay
clear_registry_spheres_only(R) ==
    LET gone == { TrackedName(l) : l \in DOMAIN R.tracking_objects }
    IN [ R EXCEPT !.objects = Drop(R.objects, gone),
                  !.tracking_objects = EmptyDict,
                  !.visible_objects = EmptyDict ]

\* clear_tracking_objects: removes every label's sphere and particle cube
clear_registry(R) ==
    LET gone == { TrackedName(l) : l \in DOMAIN R.tracking_objects }
                \cup { ParticleName(l) : l \in DOMAIN R.tracking_objects }
    IN [ R EXCEPT !.objects = Drop(R.objects, gone),
                  !.tracking_objects = EmptyDict,
                  !.visible_objects = EmptyDict ]

\* the registry variables take the value R
SetRegistry(R) ==
    /\ tracking_objects' = R.tracking_objects
    /\ visible_objects' = R.visible_objects
    /\ objects' = R.objects
    /\ nobj' = R.nobj

\* the two callbacks lines 128-138 register for one message, run in the
\* order of their registration with that message's own values
ApplyMessage(R, m) ==
    LET R1 == set_object_visibility(R, m.label, m.visible)
    IN IF m.visible
       THEN update_object_position(R1, m.label, m.x, m.y, m.z, m.confidence)
       ELSE R1

\* ------------------------------------------------------------ initial state
\* the module has been loaded and `tracker` constructed (lines 9-14, 200);
\* no client has connected
Idle == [ fn |-> "none", conn |-> 0, seq |-> 0, args |-> << >> ]

NoLocals == [ label |-> Unbound, confidence |-> Unbound, visible |-> Unbound,
              x |-> Unbound, y |-> Unbound, z |-> Unbound ]

Init ==
    /\ is_running = FALSE
    /\ server_thread = 0
    /\ threads = << >>
    /\ console = ""
    /\ tracking_objects = EmptyDict
    /\ visible_objects = EmptyDict
    /\ objects = EmptyDict
    /\ nobj = 0
    /\ sock = [ c \in Conns |-> "free" ]
    /\ received = [ c \in Conns |-> << >> ]
    /\ parse_errors = [ c \in Conns |-> 0 ]
    /\ hpc = [ c \in Conns |-> "none" ]
    /\ locals = [ c \in Conns |-> NoLocals ]
    /\ nreg = [ c \in Conns |-> 0 ]
    /\ timers = << >>
    /\ cur = Idle

\* ------------------------------------------- main thread: server control
MainIdle == cur.fn = "none"

\* start_server without the `if self.is_running:` of lines 152-154
start_server_unguarded ==
    /\ MainIdle
    /\ Len(threads) < MaxThreads
    /\ is_running' = TRUE
    /\ threads' = Append(threads, "starting")
    /\ server_thread' = Len(threads) + 1
    /\ UNCHANGED << console, registry_vars, conn_vars, timers, cur >>

\* start_server (called by OBJECT_OT_start_tracking.execute and register)
start_server ==
    /\ MainIdle
    /\ IF is_running
       THEN /\ console' = "Server is already running"
            /\ UNCHANGED server_vars
       ELSE /\ Len(threads) < MaxThreads
            /\ is_running' = TRUE
            /\ threads' = Append(threads, "starting")
            /\ server_thread' = Len(threads) + 1
            /\ UNCHANGED console
    /\ UNCHANGED << registry_vars, conn_vars, timers, cur >>

\* stop_server (called by OBJECT_OT_stop_tracking.execute and unregister):
\* join(timeout=1) waits at most a second for a thread that is inside
\* loop.run_forever(), and returns with the thread as it was
stop_server ==
    /\ MainIdle
    /\ is_running' = FALSE
    /\ console' = "WebSocket server stopped"
    /\ UNCHANGED << server_thread, threads, registry_vars, conn_vars, timers, cur >>

\* ------------------------------------------------- listener thread: server
PortBound == \E t \in DOMAIN threads : threads[t] = "serving"

\* run_server in thread t: websockets.serve binds localhost:8333; the bind
\* raises OSError when another thread of this process holds the port, and
\* the exception ends the thread; otherwise the thread stays in run_forever
run_server(t) ==
    /\ threads[t] = "starting"
    /\ threads' = [ threads EXCEPT ![t] = IF PortBound THEN "dead" ELSE "serving" ]
    /\ UNCHANGED << is_running, server_thread, console, registry_vars, conn_vars,
                    timers, cur >>

\* ------------------------------------------------------------- the clients
TotalReceived == LET RECURSIVE Sum(_)
                     Sum(S) == IF S = {} THEN 0
                               ELSE LET c == CHOOSE e \in S : TRUE
                                    IN Len(received[c]) + Sum(S \ {c})
                 IN Sum(Conns)

\* the messages taken off the sockets so far, parsed or not
TotalTaken == LET RECURSIVE Sum(_)
                  Sum(S) == IF S = {} THEN 0
                            ELSE LET c == CHOOSE e \in S : TRUE
                                 IN parse_errors[c] + Sum(S \ {c})
              IN TotalReceived + Sum(Conns)

\* a client connects: the serving loop starts a handle_websocket_message
\* coroutine for it, with its own local variables
client_connect(c) ==
    /\ sock[c] = "free"
    /\ PortBound
    /\ sock' = [ sock EXCEPT ![c] = "open" ]
    /\ hpc' = [ hpc EXCEPT ![c] = "recv" ]
    /\ UNCHANGED << server_vars, console, registry_vars, received, parse_errors,
                    locals, nreg, timers, cur >>

\* ------------------------------------- listener thread: the message handler
\* the message the coroutine of c is handling (`data`)
Data(c) == received[c][Len(received[c])]

\* `async for message in websocket` yields the next message the client sent,
\* json.loads parses it, and label = data.get('label') rebinds the first local
handler_recv(c, message) ==
    /\ hpc[c] = "recv"
    /\ TotalTaken < MaxMsgs
    /\ received' = [ received EXCEPT ![c] = Append(received[c], message) ]
    /\ locals' = [ locals EXCEPT ![c].label = message.label ]
    /\ nreg' = [ nreg EXCEPT ![c] = 0 ]
    /\ hpc' = [ hpc EXCEPT ![c] = "confidence" ]
    /\ UNCHANGED << server_vars, console, registry_vars, sock, parse_errors,
                    timers, cur >>

\* lines 113-141 without the inner try: the JSONDecodeError reaches the outer
\* `except Exception` of line 147 and the coroutine returns
invalid_json_ends_handler(c) ==
    /\ hpc[c] = "recv"
    /\ TotalTaken < MaxMsgs
    /\ parse_errors' = [ parse_errors EXCEPT ![c] = parse_errors[c] + 1 ]
    /\ hpc' = [ hpc EXCEPT ![c] = "done" ]
    /\ UNCHANGED << server_vars, console, registry_vars, sock, received, locals,
                    nreg, timers, cur >>

\* `async for` yields a message that is not JSON: json.loads raises
\* JSONDecodeError before any local is rebound, line 141 prints the error and
\* the loop goes on to the next message
handler_recv_invalid(c) ==
    /\ hpc[c] = "recv"
    /\ TotalTaken < MaxMsgs
    /\ parse_errors' = [ parse_errors EXCEPT ![c] = parse_errors[c] + 1 ]
    /\ UNCHANGED << server_vars, console, registry_vars, sock, received, hpc,
                    locals, nreg, timers, cur >>

\* one of the assignments of lines 119-125: the next local variable is rebound
NextPc(pc) == CASE pc = "confidence" -> "visible"
                [] pc = "visible" -> "x"
                [] pc = "x" -> "y"
                [] pc = "y" -> "z"
                [] pc = "z" -> "register_visibility"

handler_assign(c) ==
    /\ hpc[c] \in { "confidence", "visible", "x", "y", "z" }
    /\ locals' = [ locals EXCEPT ![c] =
                     CASE hpc[c] = "confidence" -> [ @ EXCEPT !.confidence = Data(c).confidence ]
                       [] hpc[c] = "visible" -> [ @ EXCEPT !.visible = Data(c).visible ]
                       [] hpc[c] = "x" -> [ @ EXCEPT !.x = Data(c).x ]
                       [] hpc[c] = "y" -> [ @ EXCEPT !.y = Data(c).y ]
                       [] hpc[c] = "z" -> [ @ EXCEPT !.z = Data(c).z ] ]
    /\ hpc' = [ hpc EXCEPT ![c] = NextPc(hpc[c]) ]
    /\ UNCHANGED << server_vars, console, registry_vars, sock, received, parse_errors, nreg,
                    timers, cur >>

\* bpy.app.timers.register(lambda: ..., first_interval=0.0): the callback
\* is appended to the timer list; it holds the cells of coroutine c, not values
Timer(fn, c) == [ fn |-> fn, conn |-> c, seq |-> Len(received[c]) ]

\* lines 128-138 with the two registrations in the other order
register_position_first(c) ==
    /\ hpc[c] = "register_visibility"
    /\ timers' = timers
                  \o (IF locals[c].visible
                      THEN << Timer("update_object_position", c) >> ELSE << >>)
                  \o << Timer("set_object_visibility", c) >>
    /\ nreg' = [ nreg EXCEPT ![c] = nreg[c] + (IF locals[c].visible THEN 2 ELSE 1) ]
    /\ hpc' = [ hpc EXCEPT ![c] = "recv" ]
    /\ UNCHANGED << server_vars, console, registry_vars, sock, received, parse_errors, locals, cur >>

\* line 128 calling set_object_visibility on the listener thread itself
set_visibility_in_handler(c) ==
    /\ hpc[c] = "register_visibility"
    /\ SetRegistry(set_object_visibility(Registry, locals[c].label, locals[c].visible))
    /\ nreg' = [ nreg EXCEPT ![c] = nreg[c] + 1 ]
    /\ hpc' = [ hpc EXCEPT ![c] = "register_position" ]
    /\ UNCHANGED << server_vars, console, sock, received, parse_errors, locals, timers, cur >>

\* lines 128-131
register_visibility(c) ==
    /\ hpc[c] = "register_visibility"
    /\ timers' = Append(timers, Timer("set_object_visibility", c))
    /\ nreg' = [ nreg EXCEPT ![c] = nreg[c] + 1 ]
    /\ hpc' = [ hpc EXCEPT ![c] = "register_position" ]
    /\ UNCHANGED << server_vars, console, registry_vars, sock, received, parse_errors, locals, cur >>

\* lines 134-138 without the `if visible:`
register_position_always(c) ==
    /\ hpc[c] = "register_position"
    /\ timers' = Append(timers, Timer("update_object_position", c))
    /\ nreg' = [ nreg EXCEPT ![c] = nreg[c] + 1 ]
    /\ hpc' = [ hpc EXCEPT ![c] = "recv" ]
    /\ UNCHANGED << server_vars, console, registry_vars, sock, received, parse_errors, locals, cur >>

\* lines 134-138
register_position(c) ==
    /\ hpc[c] = "register_position"
    /\ IF locals[c].visible
       THEN /\ timers' = Append(timers, Timer("update_object_position", c))
            /\ nreg' = [ nreg EXCEPT ![c] = nreg[c] + 1 ]
       ELSE UNCHANGED << timers, nreg >>
    /\ hpc' = [ hpc EXCEPT ![c] = "recv" ]
    /\ UNCHANGED << server_vars, console, registry_vars, sock, received, parse_errors, locals, cur >>

\* ------------------------------------------- main thread: timer callbacks
\* the arguments of each lambda's call, in evaluation order
ArgNames(fn) == IF fn = "set_object_visibility"
                THEN << "label", "visible" >>
                ELSE << "label", "x", "y", "z", "confidence" >>

\* the value the running callback loads for its next argument: the current
\* content of the cell of the coroutine that registered it
NextArg == locals[cur.conn][ArgNames(cur.fn)[Len(cur.args) + 1]]

\* Blender takes the oldest registered timer; its lambda starts and loads
\* its first argument
timer_begin ==
    /\ MainIdle
    /\ timers # << >>
    /\ LET t == Head(timers)
       IN cur' = [ fn |-> t.fn, conn |-> t.conn, seq |-> t.seq,
                   args |-> << locals[t.conn].label >> ]
    /\ timers' = Tail(timers)
    /\ UNCHANGED << server_vars, console, registry_vars, conn_vars >>

\* the lambda loads one more argument
timer_load ==
    /\ ~MainIdle
    /\ Len(cur.args) + 1 < Len(ArgNames(cur.fn))
    /\ cur' = [ cur EXCEPT !.args = Append(cur.args, NextArg) ]
    /\ UNCHANGED << server_vars, console, registry_vars, conn_vars, timers >>

\* the lambda loads its last argument and calls the method, which returns
\* None: the timer is not run again
timer_call ==
    /\ ~MainIdle
    /\ Len(cur.args) + 1 = Len(ArgNames(cur.fn))
    /\ LET a == Append(cur.args, NextArg)
       IN IF cur.fn = "set_object_visibility"
          THEN SetRegistry(set_object_visibility(Registry, a[1], a[2]))
          ELSE SetRegistry(update_object_position(Registry, a[1], a[2], a[3], a[4], a[5]))
    /\ cur' = Idle
    /\ UNCHANGED << server_vars, console, conn_vars, timers >>

\* ------------------------------------------------ main thread: operators
\* clear_tracking_objects (OBJECT_OT_clear_tracking.execute)
clear_tracking_objects ==
    /\ MainIdle
    /\ SetRegistry(clear_registry(Registry))
    /\ UNCHANGED << server_vars, console, conn_vars, timers, cur >>

\* OBJECT_OT_toggle_object_visibility.execute with self.label = label
toggle_visibility(label) ==
    /\ MainIdle
    /\ IF label \in DOMAIN visible_objects
       THEN SetRegistry(set_object_visibility(Registry, label, ~visible_objects[label]))
       ELSE UNCHANGED registry_vars
    /\ UNCHANGED << server_vars, console, conn_vars, timers, cur >>

\* ------------------------------------------------------------ next state
MainStep ==
    \/ start_server
    \/ stop_server
    \/ clear_tracking_objects
    \/ \E label \in Labels : toggle_visibility(label)
    \/ timer_begin
    \/ timer_load
    \/ timer_call

ListenerStep ==
    \/ \E t \in DOMAIN threads : run_server(t)
    \/ \E c \in Conns, message \in Messages : handler_recv(c, message)
    \/ \E c \in Conns : handler_recv_invalid(c)
    \/ \E c \in Conns : handler_assign(c)
    \/ \E c \in Conns : register_visibility(c)
    \/ \E c \in Conns : register_position(c)

ClientStep == \E c \in Conns : client_connect(c)

Next == MainStep \/ ListenerStep \/ ClientStep

Spec == Init /\ [][Next]_vars

\* the behaviours in which the user leaves "Clear All" and "Toggle" alone:
\* the registry changes through the messages only
NextMessages ==
    \/ start_server
    \/ stop_server
    \/ timer_begin
    \/ timer_load
    \/ timer_call
    \/ ListenerStep
    \/ ClientStep

SpecMessages == Init /\ [][NextMessages]_vars

\* ================================================================ claims
\* every registered callback has run and no handler is inside an iteration
Quiescent ==
    /\ MainIdle
    /\ timers = << >>
    /\ \A c \in Conns : hpc[c] \in { "none", "recv" }

\* c is the one connection that received messages
OnlyConn(c) ==
    /\ received[c] # << >>
    /\ \A d \in Conns \ {c} : received[d] = << >>

Max(S) == CHOOSE n \in S : \A k \in S : k <= n

\* the positions in the messages of c of those for label (visible ones only)
MsgsFor(c, label) == { i \in DOMAIN received[c] : received[c][i].label = label }
VisibleMsgsFor(c, label) == { i \in MsgsFor(c, label) : received[c][i].visible }

Shown(label) ==
    /\ label \in DOMAIN tracking_objects
    /\ label \in DOMAIN visible_objects
    /\ visible_objects[label] = TRUE
    /\ objects[tracking_objects[label]].hide_viewport = FALSE
    /\ objects[tracking_objects[label]].hide_render = FALSE

\* C1: once every callback of the messages of one connection has run, each
\* label that had a visible=true message holds the location and the scale of
\* its most recent visible=true message, and visible_objects[label] is the
\* 'visible' flag of its most recent message.
LastKnownState ==
    Quiescent =>
        \A c \in Conns : OnlyConn(c) =>
            \A label \in Labels : VisibleMsgsFor(c, label) # {} =>
                LET m == received[c][Max(VisibleMsgsFor(c, label))]
                    last == received[c][Max(MsgsFor(c, label))]
                IN /\ label \in DOMAIN tracking_objects
                   /\ objects[tracking_objects[label]].location = << m.x, m.y, m.z >>
                   /\ objects[tracking_objects[label]].scale = Scale(m.confidence)
                   /\ label \in DOMAIN visible_objects
                   /\ visible_objects[label] = last.visible

\* C2: once the callbacks of a visible=true message for a label have all
\* run (the message is the connection's most recent one), the label's
\* tracking object exists and is shown.
AppearsWhenDetected ==
    Quiescent =>
        \A c \in Conns : OnlyConn(c) =>
            LET m == received[c][Len(received[c])]
            IN m.visible => Shown(m.label)

\* the handler of c has finished the iteration for a message
Handled(c) == hpc[c] = "recv" /\ received[c] # << >>

View(R, label) ==
    [ tracking_objects |-> R.tracking_objects,
      visible_objects |-> R.visible_objects,
      object |-> IF label \in DOMAIN R.tracking_objects
                 THEN LET o == R.objects[R.tracking_objects[label]]
                      IN << o.location, o.scale, o.hide_viewport, o.hide_render >>
                 ELSE << >> ]

\* C4: from any reachable state, applying the update of a message twice in
\* a row leaves the registry and the label's object as applying it once.
IdempotentUpdate ==
    \A m \in Messages :
        View(ApplyMessage(ApplyMessage(Registry, m), m), m.label)
            = View(ApplyMessage(Registry, m), m.label)

\* callback e1 comes before callback e2 of the same connection: an earlier
\* message, or the visibility update of the same message
Before(e1, e2) ==
    \/ e1.seq < e2.seq
    \/ e1.seq = e2.seq /\ e1.fn = "set_object_visibility"
                       /\ e2.fn = "update_object_position"

\* C5: the callbacks of one connection wait in the order their messages were
\* received, visibility before position, and the callback being applied
\* comes before every callback of its connection that is still waiting.
FifoPerConnection ==
    /\ \A i, j \in DOMAIN timers :
           i < j /\ timers[i].conn = timers[j].conn => Before(timers[i], timers[j])
    /\ ~MainIdle =>
           \A j \in DOMAIN timers :
               timers[j].conn = cur.conn => Before(cur, timers[j])

FifoPerConnectionWitness ==
    /\ ~MainIdle
    /\ cur.fn = "update_object_position"
    /\ cur.seq = 1
    /\ Len(timers) = 2
    /\ \A j \in DOMAIN timers : timers[j].conn = cur.conn /\ timers[j].seq = 2

\* C6: every step that changes tracking_objects, visible_objects or a scene
\* object is a step of the main thread: a timer callback's call or an
\* operator's execute; no step of the listener thread changes them.
MainThreadOnly ==
    [][ registry_vars' # registry_vars =>
            \/ timer_call
            \/ clear_tracking_objects
            \/ \E label \in Labels : toggle_visibility(label) ]_vars

MainThreadOnlyWitness ==
    /\ \A c \in Conns : received[c] # << >>
    /\ DOMAIN tracking_objects = Labels

\* C7: at most one thread created by start_server is alive at any time.
SingleListenerThread ==
    Cardinality({ t \in DOMAIN threads : threads[t] # "dead" }) <= 1

\* C8: once stop_server has returned and until start_server is called
\* again (is_running is False), the listener accepts no connection and
\* takes no message.
StopServerStops ==
    [][ (\/ \E c \in Conns : client_connect(c)
         \/ \E c \in Conns, message \in Messages : handler_recv(c, message))
        => is_running ]_vars

StartWhileRunningIsNoOp ==
    /\ [][ is_running /\ start_server =>
              /\ console' = "Server is already running"
              /\ UNCHANGED << server_vars, registry_vars >> ]_vars
    /\ [][ is_running =>
              /\ Len(threads') = Len(threads)
              /\ server_thread' = server_thread ]_vars

StartWhileRunningIsNoOpWitness ==
    /\ console = "Server is already running"
    /\ is_running
    /\ Len(threads) = 1
    /\ DOMAIN tracking_objects # {}

\* C11: each callback applies the label, the visible flag, the coordinates
\* and the confidence of the message that scheduled it, also when later
\* messages of its connection were received before it runs.
CallbackAppliesOwnMessage ==
    [][ timer_call =>
            LET m == received[cur.conn][cur.seq]
                a == Append(cur.args, NextArg)
            IN \A i \in DOMAIN a : a[i] = m[ArgNames(cur.fn)[i]] ]_vars

\* the visible=true messages received so far, on any connection
VisibleReceived ==
    UNION { { received[c][i] : i \in { j \in DOMAIN received[c] : received[c][j].visible } } :
            c \in Conns }

\* C12: a tracking object exists only for a label that had a visible=true
\* message, and its location and scale are values of visible=true messages:
\* no message with visible=false creates an object or moves or scales one.
PositionOnlyIfVisible ==
    \A label \in DOMAIN tracking_objects :
        LET o == objects[tracking_objects[label]]
        IN /\ \E m \in VisibleReceived : m.label = label
           /\ \E m \in VisibleReceived : o.location[1] = m.x
           /\ \E m \in VisibleReceived : o.location[2] = m.y
           /\ \E m \in VisibleReceived : o.location[3] = m.z
           /\ \E m \in VisibleReceived : o.scale = Scale(m.confidence)

\* C13: a message that is not valid JSON is reported and dropped: the step
\* that prints the parse error registers no callback, changes no local of
\* the handler, nothing of the registry or the scene, and leaves the handler
\* in its receive loop; no handler ever leaves the loop.
InvalidJsonDropped ==
    /\ [][ \A c \in Conns : parse_errors'[c] # parse_errors[c] =>
              /\ parse_errors'[c] = parse_errors[c] + 1
              /\ hpc'[c] = "recv"
              /\ UNCHANGED << registry_vars, received, locals, nreg, timers, cur >> ]_vars
    /\ [](\A c \in Conns : hpc[c] \in { "none", "recv", "confidence", "visible", "x",
                                       "y", "z", "register_visibility",
                                       "register_position" })

\* a connection whose first message was not JSON is handling its next
\* message and has registered that message's visibility callback
InvalidJsonDroppedWitness ==
    \E c \in Conns :
        /\ parse_errors[c] = 1
        /\ Len(received[c]) = MaxMsgs - 1
        /\ hpc[c] = "register_position"
        /\ nreg[c] = 1
        /\ \E j \in DOMAIN timers : timers[j].conn = c /\ timers[j].seq = Len(received[c])

====
